---------------------------- MODULE Spec2Model ----------------------------
(***************************************************************************)
(* A model of src/src/CloudflareKVCache.js: the factory's kvCache giving   *)
(* one wrapped-function instance (the closure it returns) over an external *)
(* key-value store.  kvCache merges and validates its options (Wrap); the  *)
(* operations are those of the instance it returned.                       *)
(*                                                                         *)
(* Every operation of the instance (the wrapped call `cache`, raw, get,    *)
(* set, clear) is an async function; a task of the model is one invocation *)
(* of one of them, and one action of the model is the code between two     *)
(* awaits.  The store (KV.get / KV.put / KV.delete), the ambient runtime   *)
(* (import('cloudflare:workers')) and the wrapped function fn are the      *)
(* environment: the result of fn and the failure of a store request are    *)
(* chosen nondeterministically at each invocation.                         *)
(*                                                                         *)
(* JavaScript values are written as tagged strings ("undefined", "null",   *)
(* "NaN", "num:10"); the texts the store holds are the JSON texts          *)
(* ("null", "10") or text that is not JSON ("not-json").  ttl is held in   *)
(* tenths of a second so that a fractional ttl (61.8) can be written.      *)
(***************************************************************************)
EXTENDS Naturals, Sequences, FiniteSets, TLC

\* ------------------------------------------------------------------ bounds
\* Invocations that may be in flight at once (their frames are 1..MaxTasks).
MaxTasks == 2

Tasks == 1..MaxTasks

\* ------------------------------------------------------------- JS values
Undefined == "undefined"
Null == "null"
NaN == "NaN"
Num10 == "num:10"
\* The values fn may return and set may be given.
Values == {Undefined, Null, NaN, Num10}

\* Texts of the store; NoEntry is KV.get's null ("not found").
NoEntry == "<no entry>"
BadText == "not-json"
SyntaxError == "<SyntaxError>"
NoText == "<undefined>"

\* JSON.stringify(value): NaN serialises as null; undefined has no JSON text.
JSONstringify(value) ==
    CASE value = Null -> "null"
      [] value = NaN -> "null"
      [] value = Num10 -> "10"
      [] OTHER -> NoText

\* JSON.parse(text): the value, or SyntaxError when the text is not JSON.
JSONparse(text) ==
    CASE text = "null" -> Null
      [] text = "10" -> Num10
      [] OTHER -> SyntaxError

\* MathFloor as Math.round: 61.8 becomes 62.
MathRound(t) == (t + 5) \div 10

\* Math.floor(ttl), ttl in tenths of a second, the result in seconds.
MathFloor(t) == t \div 10

\* ------------------------------------------------------------ key derivation
\* What a key function may return besides a string.
False == "<false>"
NonString == "<123>"
\* keyGenerator when opts.key is a function (otherwise it is the key string).
KeyFunction == "<function>"
StaticKey == "fixed"
\* fn.name of a named function; an anonymous function's name is "".
FnName == "getNow"
Prefixes == {"", "p:"}

\* The argument tuples of a call, and the key function applied to each: two
\* tuples with different string keys, one the function bypasses, one for which
\* it returns a non-string.
Args == {"x1", "x2", "x3", "x4"}
KeyFn(args) ==
    CASE args = "x1" -> "a"
      [] args = "x2" -> "b"
      [] args = "x3" -> False
      [] OTHER -> NonString

DerivedKeys == {StaticKey, FnName, "a", "b"}
StoreKeys == {p \o k : p \in Prefixes, k \in DerivedKeys}

\* The ambient env[binding]: a store, nothing, or an object without delete.
EnvKinds == {"valid", "absent", "malformed"}
Module == "cloudflare:workers"

Ops == {"call", "raw", "get", "set", "clear"}

\* ------------------------------------------------------ options of kvCache
\* An options object: binding, prefix and key are the property's value, or
\* Absent when the object has no such property (NonString: a number); ttl is
\* [kind, tenths]: kind says what the property holds ("absent", "undefined",
\* "string", "NaN", "Infinity", "number"), tenths the number in tenths of a
\* second.
Absent == "<absent>"
NoTtl == [kind |-> "absent", tenths |-> 0]
Ttl(n) == [kind |-> "number", tenths |-> n]
NotANumber == {[kind |-> k, tenths |-> 0] : k \in {"undefined", "string", "NaN", "Infinity"}}
TtlOptions == {NoTtl} \cup NotANumber \cup {Ttl(590), Ttl(599), Ttl(600), Ttl(618)}
NoOptions == [binding |-> Absent, prefix |-> Absent, key |-> Absent, ttl |-> NoTtl]

\* The least ttl kvCache accepts: 60 seconds, in tenths.
MinTtl == 600

\* Object.assign({}, options, fnOptions): a property of fnOptions wins.
ObjectAssign(o, fo) ==
    [binding |-> IF fo.binding = Absent THEN o.binding ELSE fo.binding,
     prefix |-> IF fo.prefix = Absent THEN o.prefix ELSE fo.prefix,
     key |-> IF fo.key = Absent THEN o.key ELSE fo.key,
     ttl |-> IF fo.ttl.kind = "absent" THEN o.ttl ELSE fo.ttl]

\* opts.binding || 'KV'
bindingOf(opts) == IF opts.binding \in {Absent, ""} THEN "KV" ELSE opts.binding
\* typeof opts.prefix === 'string' ? opts.prefix : ''
prefixOf(opts) == IF opts.prefix \in {Absent, NonString} THEN "" ELSE opts.prefix
\* opts.key || fn.name
keyGeneratorOf(opts, name) == IF opts.key \in {Absent, ""} THEN name ELSE opts.key

\* Number.isFinite(ttl): a number, neither NaN nor an infinity; no coercion.
NumberIsFinite(t) == t.kind = "number"

\* ttlIsValid with `ttl > 60`: a ttl of exactly 60 is refused.
ttlIsValidAbove(t) == NumberIsFinite(t) /\ t.tenths > MinTtl

\* Number.isFinite(ttl) && ttl >= 60
ttlIsValid(t) == NumberIsFinite(t) /\ t.tenths >= MinTtl

\* The asserts of kvCache on binding, prefix and keyGenerator.
othersAreValid(opts, name) ==
    /\ bindingOf(opts) # NonString
    /\ keyGeneratorOf(opts, name) \notin {"", NonString}

\* kvCache(fn, fnOptions) up to its asserts: threw, or the closure's constants.
kvCache(o, fo, name) ==
    LET opts == ObjectAssign(o, fo)
    IN  [threw |-> ~(othersAreValid(opts, name) /\ ttlIsValid(opts.ttl)),
         binding |-> bindingOf(opts), prefix |-> prefixOf(opts),
         keyGenerator |-> keyGeneratorOf(opts, name), ttl |-> opts.ttl.tenths]

\* The keys a wrapped instance can address.
KeysOf(w) ==
    IF w.threw THEN {}
    ELSE IF w.keyGenerator = KeyFunction
    THEN {w.prefix \o "a", w.prefix \o "b"}
    ELSE {w.prefix \o w.keyGenerator}

\* The factory's defaults and the options wrapped in the runs of the
\* operations: a fixed key under the default prefix and fractional ttl
\* (61.8 s), a key function with no prefix and the least ttl, and two that
\* kvCache refuses.
Factory == [NoOptions EXCEPT !.prefix = "p:", !.ttl = Ttl(618)]
Wrapped ==
    {[NoOptions EXCEPT !.key = StaticKey],
     [NoOptions EXCEPT !.key = KeyFunction, !.prefix = "", !.ttl = Ttl(600)],
     [NoOptions EXCEPT !.key = StaticKey, !.ttl = Ttl(599)],
     [NoOptions EXCEPT !.key = NonString]}

\* Every options object of the wrap runs.
AllOptions ==
    [binding : {Absent, "", "MY_KV", NonString}, prefix : {Absent, "p:", NonString},
     key : {Absent, "", StaticKey, KeyFunction, NonString}, ttl : TtlOptions]
Factories == {o \in AllOptions : o.binding = Absent /\ o.key = Absent}
NotWrapped == "<not wrapped>"

VARIABLES
    options,        \* the factory's default options
    fnOptions,      \* the options given to kvCache
    fnName,         \* fn.name
    wrapped,        \* "no", then "ok" (kvCache returned) or "threw"
    binding,        \* opts.binding || 'KV'
    keyGenerator,   \* opts.key || fn.name: a key string, or KeyFunction
    prefix,         \* the key prefix
    ttl,            \* opts.ttl, in tenths of a second
    envKV,          \* what the runtime's env holds at the binding name
    runtimeCache,   \* the memoized module of resolveKV, or Null
    store,          \* the store's entries: key -> text, or NoEntry
    task,           \* the invocations in flight: task id -> its frame
    prev,           \* what the operation before the one in frame 1 did
    nImport         \* import('cloudflare:workers') evaluated so far

vars == <<options, fnOptions, fnName, wrapped, binding, keyGenerator, prefix,
          ttl, envKV, runtimeCache, store, task, prev, nImport>>
config == <<options, fnOptions, fnName, wrapped, binding, keyGenerator, prefix,
            ttl, envKV>>

\* The frame of one invocation.  status: "pending" until the promise settles,
\* then "returned" (result is the value) or "threw" (error says what).
\* The n* fields count what this invocation did; hit, putOk, delOk and
\* expired record what happened to it.
\* cacheKey is NoKey until computeKey returned; fnArgs and fnOut are what fn
\* was applied to and what it did; got is what the getter reported, text and
\* getFault what KV.get did; putKey, putText, putTtl are the KV.put issued,
\* putFailed and putOk its outcome, over the text the store held (and holds)
\* at the key when the put failed; expired: the entry at cacheKey expired
\* since the invocation; setKey and setVal are what the setter was handed,
\* delKey the key of the KV.delete issued, sawRc the runtimeCache that
\* `if (!runtimeCache)` tested, usedRc the runtimeCache whose env was read.
NoKey == "<no key>"
NoArgs == "<no args>"
NotCalled == "<not called>"
FnThrew == "<fn threw>"
IdleTask ==
    [op |-> "none", pc |-> "idle", args |-> "x1", value |-> Undefined,
     cacheKey |-> NoKey, result |-> Undefined, status |-> "pending",
     error |-> "none", nKey |-> 0, nFn |-> 0, nGetter |-> 0, nSetter |-> 0,
     nGet |-> 0, nPut |-> 0, nDel |-> 0, nImp |-> 0, nLook |-> 0,
     fnArgs |-> NoArgs, fnOut |-> NotCalled,
     got |-> Undefined, getFault |-> FALSE, text |-> NoEntry,
     putOk |-> FALSE, putFailed |-> FALSE, delOk |-> FALSE, putKey |-> NoKey,
     putText |-> NoText, over |-> NoEntry, putTtl |-> 0, expired |-> FALSE,
     setKey |-> NoKey, setVal |-> Undefined, delKey |-> NoKey,
     usedRc |-> Null, sawRc |-> Null]

\* What is kept of the operation that completed before the current one: a
\* wrapped call that missed and returned ("call", val its result), a set that
\* returned ("set", val its value), a clear that returned ("clear"), or any
\* other ("other"); putFailed: its
\* KV.put failed, over: the text the store held at the key when it did;
\* quiet: the entry at its key has not expired since it was invoked; looked:
\* it looked the binding up.
NoPrev ==
    [op |-> "none", cacheKey |-> NoKey, val |-> Undefined, putFailed |-> FALSE,
     over |-> NoEntry, quiet |-> TRUE, looked |-> FALSE]

Summary(tk) ==
    IF tk.pc # "done" THEN NoPrev
    ELSE IF tk.op = "call" /\ tk.status = "returned" /\ tk.nGetter = 1
            /\ tk.got = Undefined
    THEN [op |-> "call", cacheKey |-> tk.cacheKey, val |-> tk.result,
          putFailed |-> tk.putFailed, over |-> tk.over, quiet |-> ~tk.expired,
          looked |-> TRUE]
    ELSE IF tk.op = "set" /\ tk.status = "returned" /\ tk.cacheKey # False
    THEN [op |-> "set", cacheKey |-> tk.cacheKey, val |-> tk.value,
          putFailed |-> tk.putFailed, over |-> tk.over, quiet |-> ~tk.expired,
          looked |-> tk.nLook > 0]
    ELSE IF tk.op = "clear" /\ tk.status = "returned" /\ tk.cacheKey # False
    THEN [NoPrev EXCEPT !.op = "clear", !.cacheKey = tk.cacheKey,
                        !.looked = tk.nLook > 0]
    ELSE [NoPrev EXCEPT !.op = "other", !.looked = tk.nLook > 0]

\* The factory holds its options, kvCache is about to be given fn and
\* fnOptions; the store holds what others left at the keys of the instance.
InitWith(os, fos, names, seeds) ==
    /\ options \in os
    /\ fnOptions \in fos
    /\ fnName \in names
    /\ wrapped = "no"
    /\ binding = NotWrapped
    /\ keyGenerator = NotWrapped
    /\ prefix = ""
    /\ ttl = 0
    /\ envKV \in EnvKinds
    /\ runtimeCache = Null
    /\ store \in {s \in [StoreKeys -> seeds] :
                    \A k \in StoreKeys \ KeysOf(kvCache(options, fnOptions, fnName)) :
                       s[k] = NoEntry}
    /\ task = [t \in Tasks |-> IdleTask]
    /\ prev = NoPrev
    /\ nImport = 0

Init == InitWith({Factory}, Wrapped, {FnName}, {NoEntry, BadText})

\* ------------------------------------------------------- settling a promise
Return(tk, v) == [tk EXCEPT !.pc = "done", !.status = "returned", !.result = v]
Throw(tk, e) == [tk EXCEPT !.pc = "done", !.status = "threw", !.error = e]


\* ------------------------------------------------------------- computeKey
\* computeKey without the assert: any value that is not a string bypasses.
computeKeyLenient(args) ==
    IF keyGenerator # KeyFunction
    THEN [threw |-> FALSE, key |-> prefix \o keyGenerator]
    ELSE LET key == KeyFn(args)
         IN  IF key \in {False, NonString} THEN [threw |-> FALSE, key |-> False]
             ELSE [threw |-> FALSE, key |-> prefix \o key]

\* computeKey(args): [threw, key]; key is prefix + the derived key, or False
\* (bypass); threw when the key function returns neither a string nor false.
computeKey(args) ==
    IF keyGenerator # KeyFunction
    THEN [threw |-> FALSE, key |-> prefix \o keyGenerator]
    ELSE LET key == KeyFn(args)
         IN  IF key = False THEN [threw |-> FALSE, key |-> False]
             ELSE IF key = NonString THEN [threw |-> TRUE, key |-> False]
             ELSE [threw |-> FALSE, key |-> prefix \o key]

\* cacheAfterKey without `if (cacheKey === false)`: a bypassed call goes on
\* to the store.
cacheAfterKeyNoBypass(tk) == [tk EXCEPT !.pc = "resolveKV"]

\* The code after `await computeKey(args)` in each operation.
cacheAfterKey(tk) ==
    IF tk.cacheKey = False THEN [tk EXCEPT !.pc = "bypassFn"]
    ELSE [tk EXCEPT !.pc = "resolveKV"]

getAfterKey(tk) ==
    IF tk.cacheKey = False THEN Return(tk, Undefined)
    ELSE [tk EXCEPT !.pc = "resolveKV"]

setAfterKey(tk) ==
    IF (tk.cacheKey = False) \/ (tk.value = Undefined) THEN Return(tk, Undefined)
    ELSE [tk EXCEPT !.pc = "resolveKV"]

clearAfterKey(tk) ==
    IF tk.cacheKey = False THEN Return(tk, Undefined)
    ELSE [tk EXCEPT !.pc = "resolveKV"]

afterKey(tk) ==
    CASE tk.op = "call" -> cacheAfterKey(tk)
      [] tk.op = "get" -> getAfterKey(tk)
      [] tk.op = "set" -> setAfterKey(tk)
      [] OTHER -> clearAfterKey(tk)

\* ------------------------------------------------------------- resolveKV
\* KVisValid with `assert(KV)` alone: an object without delete passes.
KVisValidTruthy(kv) == kv # "absent"

\* const KV = runtimeCache.env[binding]; assert(KV && typeof KV.get ... ).
KVisValid(kv) == kv = "valid"

\* Where each operation goes on with the handle it awaited.
afterResolve(tk) ==
    CASE tk.op \in {"call", "get"} -> [tk EXCEPT !.pc = "getter"]
      [] tk.op = "set" -> [tk EXCEPT !.pc = "setter"]
      [] OTHER -> [tk EXCEPT !.pc = "delete"]

\* The lookup and capability check of resolveKV, counted in the frame; rc is
\* the runtimeCache it reads env from (reading env of null is a TypeError).
lookupKV(tk, rc) ==
    LET looked == [tk EXCEPT !.nLook = @ + 1, !.usedRc = rc]
    IN  IF rc = Null THEN Throw(looked, "TypeError:null")
        ELSE IF KVisValid(envKV) THEN afterResolve(looked)
        ELSE Throw(looked, "TypeError:binding")

\* needsImport that never imports: resolveKV reads env of the null
\* runtimeCache.
needsImportNever(rc) == FALSE

\* needsImport without the memo: resolveKV imports on every call.
needsImportAlways(rc) == TRUE

\* if (!runtimeCache): whether resolveKV imports the runtime module.
needsImport(rc) == rc = Null

\* -------------------------------------------------------------- the store
\* KV.get(key): fails, or reports the entry's text (NoEntry: null).
KVget(key, fault) ==
    IF fault THEN [threw |-> TRUE, text |-> NoEntry]
    ELSE [threw |-> FALSE, text |-> store[key]]

\* defaultGet whose catch returns the text it could not parse.
defaultGetRawOnError(got) ==
    IF got.threw THEN Undefined
    ELSE IF got.text = NoEntry THEN Undefined
    ELSE IF JSONparse(got.text) = SyntaxError THEN got.text
    ELSE JSONparse(got.text)

\* defaultGet on what KV.get did: the parsed value, or undefined on a store
\* failure, on a missing entry and on text that does not parse.
defaultGet(got) ==
    IF got.threw THEN Undefined
    ELSE IF got.text = NoEntry THEN Undefined
    ELSE IF JSONparse(got.text) = SyntaxError THEN Undefined
    ELSE JSONparse(got.text)

\* cacheAfterGet without the early return: a hit calls fn all the same.
cacheAfterGetNoReturn(tk, res) == [tk EXCEPT !.pc = "fn"]

\* cacheAfterGet with `if (result)`: a cached null counts as a miss.
cacheAfterGetTruthy(tk, res) ==
    IF res \notin {Undefined, Null} THEN Return(tk, res)
    ELSE [tk EXCEPT !.pc = "fn"]

\* cacheAfterGet that writes a hit back to renew its ttl.
cacheAfterGetRefreshes(tk, res) ==
    IF res # Undefined THEN [tk EXCEPT !.result = res, !.pc = "setter"]
    ELSE [tk EXCEPT !.pc = "fn"]

\* if (result !== undefined) return result: a hit returns, a miss calls fn.
cacheAfterGet(tk, res) ==
    IF res # Undefined THEN Return(tk, res)
    ELSE [tk EXCEPT !.pc = "fn"]

\* return getter(KV, cacheKey) of get.
getAfterGet(tk, res) == Return(tk, res)

\* defaultSetPuts with `if (!value) return`: null is not saved either.
defaultSetPutsTruthy(value) == value \notin {Undefined, Null}

\* defaultSetPuts without the guard: undefined is put as well.
defaultSetPutsAlways(value) == TRUE

\* defaultSet: if (value === undefined) return; otherwise one KV.put.
defaultSetPuts(value) == value # Undefined

\* What the wrapped call and set hand to the setter.
setterValue(tk) == IF tk.op = "set" THEN tk.value ELSE tk.result

\* afterSetter with `return setter(...)` in the wrapped call as well.
afterSetterReturnsSetter(tk) == Return(tk, Undefined)

\* afterSetter returning what the store holds at the key after the write.
afterSetterReturnsEntry(tk) ==
    IF tk.op = "set" THEN Return(tk, Undefined)
    ELSE IF store[tk.cacheKey] = NoEntry THEN Return(tk, tk.result)
    ELSE Return(tk, JSONparse(store[tk.cacheKey]))

\* What the operation returns after the setter: result, or the setter's own.
afterSetter(tk) ==
    IF tk.op = "set" THEN Return(tk, Undefined) ELSE Return(tk, tk.result)

\* afterFn without the setter: a missed call returns fn's value at once.
afterFnReturns(tk, v) == Return(tk, v)

\* The code after fn settled on a value: raw and a bypassed call return it,
\* a missed call hands it to the setter.
afterFn(tk, v) ==
    IF tk.pc = "fn" THEN [tk EXCEPT !.result = v, !.pc = "setter"]
    ELSE Return(tk, v)

\* afterFnThrow with fn's failure caught on a miss: the call goes on to the
\* setter with no result.
afterFnThrowSwallowed(tk) ==
    IF tk.pc = "fn" THEN [tk EXCEPT !.pc = "setter"] ELSE Throw(tk, "fn")

\* fn threw: nothing catches it in cache or raw.
afterFnThrow(tk) == Throw(tk, "fn")

\* deleteKey without the prefix: clear deletes the bare derived key.
deleteKeyUnprefixed(tk) ==
    IF keyGenerator = KeyFunction THEN KeyFn(tk.args) ELSE keyGenerator

\* The key clear hands to KV.delete.
deleteKey(tk) == tk.cacheKey

\* KV.delete(key) threw: nothing catches it in clear.
afterDeleteThrow(tk) == Throw(tk, "store")

\* putFailure without the try: the store's failure reaches the caller.
putFailureThrows(tk) == Throw(tk, "store")

\* KV.put threw inside defaultSet's try: catch (_) {} and the operation goes on.
putFailure(tk) == afterSetter(tk)

\* ----------------------------------------------------------------- actions
\* kvCache(fn, fnOptions): the asserts, then the closure with its constants
\* and `let runtimeCache = null`.
Wrap ==
    /\ wrapped = "no"
    /\ LET w == kvCache(options, fnOptions, fnName)
       IN  IF w.threw
           THEN /\ wrapped' = "threw"
                /\ UNCHANGED <<binding, keyGenerator, prefix, ttl>>
           ELSE /\ wrapped' = "ok"
                /\ binding' = w.binding
                /\ keyGenerator' = w.keyGenerator
                /\ prefix' = w.prefix
                /\ ttl' = w.ttl
    /\ runtimeCache' = Null
    /\ UNCHANGED <<options, fnOptions, fnName, envKV, store, task, prev, nImport>>

Quiescent == \A u \in Tasks : task[u].pc \in {"idle", "done"}

\* NewTask with raw going through computeKey like the other operations.
NewTaskAllKeyed(o, a, v) ==
    [IdleTask EXCEPT !.op = o, !.args = a, !.value = v, !.pc = "computeKey"]

\* The frame of a fresh invocation: raw goes straight to fn.
NewTask(o, a, v) ==
    [IdleTask EXCEPT !.op = o, !.args = a, !.value = v,
                     !.pc = IF o = "raw" THEN "rawFn" ELSE "computeKey"]

\* An operation is invoked in frame t (a frame whose promise settled is
\* reused); prev keeps the operation that completed before it.
Begin(t, o, a, v) ==
    /\ wrapped = "ok"
    /\ task[t].pc \in {"idle", "done"}
    /\ task' = [task EXCEPT ![t] = NewTask(o, a, v)]
    /\ UNCHANGED <<config, runtimeCache, store, nImport>>

\* One operation at a time: invoked when no other is in flight.
Start ==
    \E o \in Ops, a \in Args :
      \E v \in (IF o = "set" THEN Values ELSE {Undefined}) :
        /\ Quiescent
        /\ Begin(1, o, a, v)
        /\ prev' = Summary(task[1])

\* The invocations of the overlapping runs: every operation on one keyed
\* argument tuple (set with a value JSON carries and one it does not), and a
\* wrapped call the key function bypasses.
OverlapCalls ==
    {<<"call", "x1", Undefined>>, <<"call", "x3", Undefined>>,
     <<"get", "x1", Undefined>>, <<"set", "x1", NaN>>, <<"set", "x1", Num10>>,
     <<"clear", "x1", Undefined>>, <<"raw", "x1", Undefined>>}

\* An operation invoked while others may be in flight: each frame holds one
\* invocation, and the frames are taken in order.
StartOverlap(t) ==
    \E c \in OverlapCalls :
      /\ task[t].pc = "idle"
      /\ \A u \in Tasks : u < t => task[u].pc # "idle"
      /\ Begin(t, c[1], c[2], c[3])
      /\ prev' = prev

\* const cacheKey = await computeKey(args), and the branch after it.
ComputeKey(t) ==
    /\ task[t].pc = "computeKey"
    /\ LET k == computeKey(task[t].args)
           tk == [task[t] EXCEPT !.nKey = @ + 1]
       IN  task' = [task EXCEPT ![t] =
                      IF k.threw THEN Throw(tk, "TypeError:key")
                      ELSE afterKey([tk EXCEPT !.cacheKey = k.key])]
    /\ UNCHANGED <<config, runtimeCache, store, prev, nImport>>

\* resolveKV up to its await: with the module memoized it looks the binding
\* up at once, otherwise it starts the import.
ResolveKV(t) ==
    /\ task[t].pc = "resolveKV"
    /\ LET tk == [task[t] EXCEPT !.sawRc = runtimeCache]
       IN  IF needsImport(runtimeCache)
           THEN /\ task' = [task EXCEPT ![t] =
                              [tk EXCEPT !.pc = "import", !.nImp = @ + 1]]
                /\ nImport' = nImport + 1
           ELSE /\ task' = [task EXCEPT ![t] = lookupKV(tk, runtimeCache)]
                /\ nImport' = nImport
    /\ UNCHANGED <<config, runtimeCache, store, prev>>

\* runtimeCache = await import('cloudflare:workers'), then the lookup.
ImportDone(t) ==
    /\ task[t].pc = "import"
    /\ runtimeCache' = Module
    /\ task' = [task EXCEPT ![t] = lookupKV(@, runtimeCache')]
    /\ UNCHANGED <<config, store, prev, nImport>>

\* await getter(KV, cacheKey): defaultGet's one KV.get and what follows it.
Getter(t) ==
    /\ task[t].pc = "getter"
    /\ \E fault \in BOOLEAN :
         LET got == KVget(task[t].cacheKey, fault)
             res == defaultGet(got)
             tk == [task[t] EXCEPT !.nGetter = @ + 1, !.nGet = @ + 1,
                                   !.getFault = fault, !.text = got.text,
                                   !.got = res]
         IN  task' = [task EXCEPT ![t] =
                        IF tk.op = "get" THEN getAfterGet(tk, res)
                        ELSE cacheAfterGet(tk, res)]
    /\ UNCHANGED <<config, runtimeCache, store, prev, nImport>>

\* fn.apply(this, args) and its settling: a value, or a failure.
CallFn(t) ==
    /\ task[t].pc \in {"fn", "bypassFn", "rawFn"}
    /\ \E threw \in BOOLEAN, v \in Values :
         LET tk == [task[t] EXCEPT !.nFn = @ + 1, !.fnArgs = task[t].args,
                                   !.fnOut = IF threw THEN FnThrew ELSE v]
         IN  task' = [task EXCEPT ![t] =
                        IF threw THEN afterFnThrow(tk) ELSE afterFn(tk, v)]
    /\ UNCHANGED <<config, runtimeCache, store, prev, nImport>>

\* await setter(KV, cacheKey, value, ttl): defaultSet.  A failed KV.put is
\* caught and changes nothing.
Setter(t) ==
    /\ task[t].pc = "setter"
    /\ \E fault \in BOOLEAN :
         LET v == setterValue(task[t])
             tk == [task[t] EXCEPT !.nSetter = @ + 1,
                                   !.setKey = task[t].cacheKey, !.setVal = v]
         IN  IF defaultSetPuts(v)
             THEN LET put == [tk EXCEPT !.nPut = @ + 1, !.putOk = ~fault,
                                        !.putFailed = fault,
                                        !.putKey = tk.cacheKey,
                                        !.putText = JSONstringify(v),
                                        !.over = IF fault THEN store[tk.cacheKey]
                                                 ELSE NoEntry,
                                        !.putTtl = MathFloor(ttl)]
                  IN  /\ task' = [task EXCEPT ![t] =
                                    IF fault THEN putFailure(put)
                                    ELSE afterSetter(put)]
                      /\ store' = IF fault THEN store
                                  ELSE [store EXCEPT ![tk.cacheKey] = JSONstringify(v)]
             ELSE /\ task' = [task EXCEPT ![t] = afterSetter(tk)]
                  /\ store' = store
    /\ UNCHANGED <<config, runtimeCache, prev, nImport>>

\* return KV.delete(cacheKey) of clear.
Delete(t) ==
    /\ task[t].pc = "delete"
    /\ \E fault \in BOOLEAN :
         LET tk == [task[t] EXCEPT !.nDel = @ + 1, !.delOk = ~fault,
                                   !.delKey = deleteKey(task[t])]
         IN  /\ task' = [task EXCEPT ![t] =
                           IF fault THEN afterDeleteThrow(tk)
                           ELSE Return(tk, Undefined)]
             /\ store' = IF fault THEN store
                         ELSE [store EXCEPT ![tk.delKey] = NoEntry]
    /\ UNCHANGED <<config, runtimeCache, prev, nImport>>

\* The store drops an entry whose TTL ran out; the operations on that key
\* note it.
Expire(k) ==
    /\ store[k] # NoEntry
    /\ store' = [store EXCEPT ![k] = NoEntry]
    /\ task' = [u \in Tasks |->
                  IF task[u].cacheKey = k THEN [task[u] EXCEPT !.expired = TRUE]
                  ELSE task[u]]
    /\ prev' = IF prev.cacheKey = k THEN [prev EXCEPT !.quiet = FALSE] ELSE prev
    /\ UNCHANGED <<config, runtimeCache, nImport>>

Step(t) ==
    \/ ComputeKey(t)
    \/ ResolveKV(t)
    \/ ImportDone(t)
    \/ Getter(t)
    \/ CallFn(t)
    \/ Setter(t)
    \/ Delete(t)

\* Operations one after another on the instance.
Next ==
    \/ Wrap
    \/ Start
    \/ \E t \in Tasks : Step(t)
    \/ \E k \in StoreKeys : Expire(k)

Spec == Init /\ [][Next]_vars

\* Operations that overlap at their awaits.
NextOverlap ==
    \/ Wrap
    \/ \E t \in Tasks : StartOverlap(t)
    \/ \E t \in Tasks : Step(t)
    \/ \E k \in StoreKeys : Expire(k)

\* The overlapping runs start from an empty store, under the key function.
OverlapInit ==
    InitWith({Factory}, {fo \in Wrapped : fo.key = KeyFunction}, {FnName}, {NoEntry})

OverlapSpec == OverlapInit /\ [][NextOverlap]_vars

\* kvCache alone, on every pair of factory options and wrap options.
WrapInit == InitWith(Factories, AllOptions, {"", FnName}, {NoEntry})
WrapNext == Wrap
WrapSpec == WrapInit /\ [][WrapNext]_vars

TypeOK ==
    /\ wrapped \in {"no", "ok", "threw"}
    /\ runtimeCache \in {Null, Module}
    /\ store \in [StoreKeys -> {NoEntry, BadText, "null", "10"}]
    /\ \A t \in Tasks : task[t].pc \in {"idle", "computeKey", "resolveKV", "import",
                                        "getter", "fn", "bypassFn", "rawFn",
                                        "setter", "delete", "done"}
    /\ nImport \in 0..MaxTasks

\* ------------------------------------------------------------------ claims
\* The values JSON.stringify and JSON.parse carry through unchanged.
JsonValues ==
    {v \in Values : JSONstringify(v) # NoText /\ JSONparse(JSONstringify(v)) = v}

\* The failures an operation lets through that are not the store's.
OwnErrors == {"TypeError:key", "TypeError:binding", "fn"}

\* A settled wrapped call or raw gave what its one application of fn gave.
GaveFnOutcome(tk) ==
    /\ tk.nFn = 1
    /\ tk.fnArgs = tk.args
    /\ \/ tk.status = "returned" /\ tk.result = tk.fnOut /\ tk.fnOut # FnThrew
       \/ tk.status = "threw" /\ tk.error = "fn" /\ tk.fnOut = FnThrew

\* C1: whenever key derivation yields the bypass sentinel, the operation issues
\* no store get, put or delete and does not resolve the binding; the wrapped
\* call gives the outcome of exactly one application of fn to the call's
\* arguments; get returns undefined; set and clear return without calling fn.
C1_BypassTouchesNothing ==
    \A t \in Tasks :
      LET tk == task[t] IN
      tk.cacheKey = False =>
        /\ tk.nGet = 0 /\ tk.nPut = 0 /\ tk.nDel = 0
        /\ tk.nImp = 0 /\ tk.nLook = 0
        /\ tk.nGetter = 0 /\ tk.nSetter = 0
        /\ tk.op = "call" =>
             /\ tk.pc \in {"bypassFn", "done"}
             /\ tk.pc = "bypassFn" => tk.nFn = 0
             /\ tk.pc = "done" => GaveFnOutcome(tk)
        /\ tk.op \in {"get", "set", "clear"} =>
             /\ tk.pc = "done" /\ tk.status = "returned"
             /\ tk.result = Undefined /\ tk.nFn = 0

\* A bypassed wrapped call returned what fn returned while the store holds an
\* entry.
C1_Witness ==
    \E t \in Tasks :
      /\ task[t].op = "call" /\ task[t].cacheKey = False
      /\ task[t].pc = "done" /\ task[t].result = Num10 /\ task[t].nFn = 1
      /\ \E k \in StoreKeys : store[k] # NoEntry

\* C2: a wrapped call whose key is not bypass and whose getter reports a value
\* other than undefined returns that value, does not call fn and issues no
\* put and no delete.
C2_HitReturnsCached ==
    \A t \in Tasks :
      LET tk == task[t] IN
      (tk.op = "call" /\ tk.nGetter = 1 /\ tk.got # Undefined) =>
        /\ tk.pc = "done" /\ tk.status = "returned" /\ tk.result = tk.got
        /\ tk.got = JSONparse(tk.text)
        /\ tk.nFn = 0 /\ tk.nSetter = 0 /\ tk.nPut = 0 /\ tk.nDel = 0

\* A wrapped call hit a stored null.
C2_Witness ==
    \E t \in Tasks :
      /\ task[t].op = "call" /\ task[t].nGetter = 1 /\ task[t].text = "null"
      /\ task[t].pc = "done" /\ task[t].result = Null

\* The second of two wrapped calls in a row on one key, the first a miss that
\* returned, no expiry of the entry since.
SecondCall(tk) ==
    /\ prev.op = "call" /\ prev.quiet
    /\ tk.op = "call" /\ tk.cacheKey = prev.cacheKey

\* C3 as claimed: after a first call that misses and completes, a second call
\* on the same key returns the first call's value without calling fn, whatever
\* value fn returned.
C3_Original ==
    LET tk == task[1] IN
    (SecondCall(tk) /\ tk.pc = "done") =>
      (tk.status = "returned" /\ tk.result = prev.val /\ tk.nFn = 0)

\* C3 as amended: after a first call that misses and returns a value JSON
\* carries (null included, undefined and NaN not) and whose put did not fail,
\* a second call on the same key whose store read does not fail returns that
\* value without calling fn and without a put.
C3_SecondCallHits ==
    LET tk == task[1] IN
    (SecondCall(tk) /\ prev.val \in JsonValues /\ ~prev.putFailed
       /\ tk.nGetter = 1 /\ ~tk.getFault) =>
      /\ tk.pc = "done" /\ tk.status = "returned" /\ tk.result = prev.val
      /\ tk.nFn = 0 /\ tk.nPut = 0

\* The second call returned the null the first call computed and stored.
C3_Witness ==
    /\ SecondCall(task[1]) /\ prev.val = Null /\ ~prev.putFailed
    /\ task[1].nGetter = 1 /\ ~task[1].getFault
    /\ task[1].pc = "done" /\ task[1].result = Null /\ task[1].nFn = 0

\* A get right after a set of a value other than undefined on the same key.
GetAfterSet(tk) ==
    /\ prev.op = "set" /\ prev.val # Undefined /\ prev.quiet
    /\ tk.op = "get" /\ tk.cacheKey = prev.cacheKey

\* C4 as claimed: set(args, v) immediately followed by get(args) yields v, for
\* every v other than undefined.
C4_Original ==
    LET tk == task[1] IN
    (GetAfterSet(tk) /\ tk.pc = "done") =>
      (tk.status = "returned" /\ tk.result = prev.val)

\* C4 as amended: set(args, v) whose put does not fail, immediately followed by
\* get(args) whose store read does not fail, yields v for every v JSON carries
\* (null included, NaN not).
C4_RoundTrip ==
    LET tk == task[1] IN
    (GetAfterSet(tk) /\ prev.val \in JsonValues /\ ~prev.putFailed
       /\ tk.nGetter = 1 /\ ~tk.getFault) =>
      (tk.pc = "done" /\ tk.status = "returned" /\ tk.result = prev.val)

\* get returned the null that the set before it stored.
C4_Witness ==
    /\ GetAfterSet(task[1]) /\ prev.val = Null /\ ~prev.putFailed
    /\ task[1].nGetter = 1 /\ ~task[1].getFault
    /\ task[1].pc = "done" /\ task[1].result = Null

\* The read of the default getter found no entry, malformed text, or failed.
BadRead(tk) ==
    tk.nGetter = 1 /\ (tk.getFault \/ tk.text = NoEntry \/ tk.text = BadText)

\* C5: with the default getter, a missing entry, malformed text and a failure
\* of KV.get each make get return undefined without raising, and make the
\* wrapped call go on as a miss: it calls fn once and gives fn's outcome.
C5_BadReadIsMiss ==
    \A t \in Tasks :
      LET tk == task[t] IN
      BadRead(tk) =>
        /\ tk.got = Undefined
        /\ tk.op = "get" =>
             tk.pc = "done" /\ tk.status = "returned" /\ tk.result = Undefined
        /\ tk.op = "call" =>
             /\ tk.pc \in {"fn", "setter", "done"}
             /\ tk.pc # "fn" => tk.nFn = 1
             /\ tk.pc = "done" => GaveFnOutcome(tk)

\* A wrapped call read malformed text, called fn and returned its result.
C5_Witness ==
    \E t \in Tasks :
      /\ task[t].op = "call" /\ task[t].nGetter = 1 /\ ~task[t].getFault
      /\ task[t].text = BadText
      /\ task[t].pc = "done" /\ task[t].result = Num10 /\ task[t].nFn = 1

\* C6: undefined is never written: set(args, undefined) issues no put, a
\* wrapped call whose fn returned undefined issues no put, and no put carries
\* the serialisation of undefined.
C6_UndefinedNeverPut ==
    /\ \A t \in Tasks :
         LET tk == task[t] IN
         /\ (tk.op = "set" /\ tk.value = Undefined) => tk.nPut = 0
         /\ (tk.op = "call" /\ tk.fnOut = Undefined) => tk.nPut = 0
         /\ tk.nPut > 0 => (setterValue(tk) # Undefined /\ tk.putText # NoText)
    /\ \A k \in StoreKeys : store[k] # NoText

\* A wrapped call missed, fn returned undefined, the setter ran and put nothing.
C6_Witness ==
    \E t \in Tasks :
      /\ task[t].op = "call" /\ task[t].fnOut = Undefined
      /\ task[t].nSetter = 1 /\ task[t].pc = "done" /\ task[t].nPut = 0

\* An operation whose KV.put failed: it issued that one put and returned, the
\* wrapped call fn's result and set undefined.
PutFailureUnseen ==
    \A t \in Tasks :
      LET tk == task[t] IN
      /\ tk.nPut <= 1
      /\ tk.putFailed =>
           /\ tk.nPut = 1 /\ ~tk.putOk
           /\ tk.pc = "done" /\ tk.status = "returned"
           /\ tk.op = "call" => (tk.nFn = 1 /\ tk.result = tk.fnOut)
           /\ tk.op = "set" => tk.result = Undefined

\* The read that follows an operation whose put failed, on the same key.
ReadAfterFailedPut(tk) ==
    /\ prev.putFailed /\ prev.quiet
    /\ tk.op \in {"get", "call"} /\ tk.cacheKey = prev.cacheKey
    /\ tk.nGetter = 1

\* C7 as claimed: a failed put is never surfaced and never retried, and the
\* next read of that key misses.
C7_Original ==
    /\ PutFailureUnseen
    /\ ReadAfterFailedPut(task[1]) => task[1].got = Undefined

\* C7 as amended: a failed put is never surfaced and never retried, and it
\* leaves the store as it was: the next read of that key, when it does not
\* fail, reads what the store held at the key before the put (a hit on the
\* older entry if there was a well-formed one, a miss otherwise).
C7_FailedPutLeavesStore ==
    /\ PutFailureUnseen
    /\ (ReadAfterFailedPut(task[1]) /\ ~task[1].getFault) =>
         /\ task[1].text = prev.over
         /\ task[1].got = defaultGet([threw |-> FALSE, text |-> prev.over])

\* A wrapped call whose put failed returned fn's result.
C7_Witness ==
    \E t \in Tasks :
      /\ task[t].op = "call" /\ task[t].putFailed
      /\ task[t].pc = "done" /\ task[t].result = Num10

C9_FnFailurePropagates ==
    \A t \in Tasks :
      LET tk == task[t] IN
      (tk.op = "call" /\ tk.nGetter = 1 /\ tk.fnOut = FnThrew) =>
        /\ tk.pc = "done" /\ tk.status = "threw" /\ tk.error = "fn"
        /\ tk.nFn = 1 /\ tk.nSetter = 0
        /\ tk.nPut = 0 /\ tk.nDel = 0 /\ ~tk.putOk /\ ~tk.delOk

\* fn failed in a wrapped call that had read malformed text, which is still
\* in the store.
C9_Witness ==
    \E t \in Tasks :
      /\ task[t].op = "call" /\ task[t].nGetter = 1 /\ task[t].fnOut = FnThrew
      /\ task[t].text = BadText /\ ~task[t].getFault
      /\ store[task[t].cacheKey] = BadText

TouchesStore(tk) ==
    /\ tk.op \in {"call", "get", "set", "clear"}
    /\ tk.cacheKey \notin {NoKey, False}
    /\ ~(tk.op = "set" /\ tk.value = Undefined)

EffectiveTtl == IF fnOptions.ttl.kind # "absent" THEN fnOptions.ttl ELSE options.ttl

\* The binding and key given (fnOptions first) are ones kvCache accepts.
OtherwiseValid ==
    LET b == IF fnOptions.binding # Absent THEN fnOptions.binding ELSE options.binding
        k == IF fnOptions.key # Absent THEN fnOptions.key ELSE options.key
    IN  /\ b \in {Absent, "", "MY_KV"}
        /\ \/ k \in {StaticKey, KeyFunction}
           \/ k \in {Absent, ""} /\ fnName # ""

\* C12: kvCache goes by the effective ttl (the one of fnOptions when given, the
\* factory's otherwise): it throws, before any operation can be invoked, when
\* that ttl is missing, not a finite number or below 60; it returns, the other
\* options being valid, when the ttl is finite and at least 60 (60 itself
\* included), and the instance keeps that ttl.
C12_TtlValidatedAtWrap ==
    wrapped # "no" =>
      /\ (EffectiveTtl.kind # "number" \/ EffectiveTtl.tenths < 600) =>
           wrapped = "threw"
      /\ (EffectiveTtl.kind = "number" /\ EffectiveTtl.tenths >= 600
             /\ OtherwiseValid) =>
           wrapped = "ok" /\ ttl = EffectiveTtl.tenths
      /\ wrapped = "threw" => \A t \in Tasks : task[t] = IdleTask

\* kvCache returned with a ttl of exactly 60 given to it over a factory default
\* of 59.9.
C12_Witness ==
    /\ wrapped = "ok" /\ ttl = 600
    /\ options.ttl = Ttl(599) /\ fnOptions.ttl = Ttl(600)

\* An operation past computeKey whose key function returned neither a string
\* nor false for its arguments.
KeyWasNonString(tk) ==
    /\ tk.op \in {"call", "get", "set", "clear"}
    /\ tk.pc # "computeKey"
    /\ keyGenerator = KeyFunction /\ KeyFn(tk.args) = NonString

\* C13: when the key function returns a value that is neither a string nor
\* false, the operation (call, get, set or clear) fails with the key TypeError
\* when invoked, the failure reaching the caller, and it has neither called fn
\* nor resolved the binding nor issued any store get, put or delete.
C13_NonStringKeyFails ==
    \A t \in Tasks :
      LET tk == task[t] IN
      KeyWasNonString(tk) =>
        /\ tk.pc = "done" /\ tk.status = "threw" /\ tk.error = "TypeError:key"
        /\ tk.nKey = 1 /\ tk.nFn = 0
        /\ tk.nImp = 0 /\ tk.nLook = 0
        /\ tk.nGetter = 0 /\ tk.nSetter = 0
        /\ tk.nGet = 0 /\ tk.nPut = 0 /\ tk.nDel = 0

\* A set of undefined failed on the key while the store holds an entry.
C13_Witness ==
    \E t \in Tasks :
      /\ task[t].op = "set" /\ task[t].value = Undefined /\ task[t].args = "x4"
      /\ task[t].status = "threw" /\ task[t].error = "TypeError:key"
      /\ \E k \in StoreKeys : store[k] # NoEntry

\* The key the instance derives from args: prefix + the static key, or prefix +
\* what the key function returns.
KeyOfArgs(args) ==
    prefix \o (IF keyGenerator = KeyFunction THEN KeyFn(args) ELSE keyGenerator)

\* A clear with a key that is not the bypass has returned.
Cleared(tk) ==
    /\ tk.op = "clear" /\ tk.pc = "done" /\ tk.status = "returned"
    /\ tk.cacheKey # False

\* The step in which the KV.delete of a clear in frame t took effect.
DeleteStep(t) ==
    /\ task[t].op = "clear"
    /\ task'[t].nDel = task[t].nDel + 1
    /\ task'[t].delOk

\* C14: a clear (key not the bypass) that has returned issued exactly one
\* KV.delete, for prefix + the key derived from its arguments, and no get or
\* put; the get of the same key that follows it, nothing written in between,
\* returns undefined; and the step of the delete removes the entry at that key
\* and leaves the entry at every other key as it was.
C14_ClearRemovesOnlyItsKey ==
    /\ [](\A t \in Tasks :
            LET tk == task[t] IN
            /\ tk.op = "clear" => tk.nDel <= 1
            /\ Cleared(tk) =>
                 /\ tk.nDel = 1 /\ tk.delKey = KeyOfArgs(tk.args)
                 /\ tk.nGet = 0 /\ tk.nPut = 0 /\ tk.nFn = 0)
    /\ []((prev.op = "clear" /\ task[1].op = "get" /\ task[1].pc = "done"
             /\ task[1].cacheKey = prev.cacheKey) =>
            (task[1].status = "returned" /\ task[1].result = Undefined))
    /\ [][\A t \in Tasks :
            DeleteStep(t) =>
              /\ store'[KeyOfArgs(task[t].args)] = NoEntry
              /\ \A k \in StoreKeys \ {KeyOfArgs(task[t].args)} :
                   store'[k] = store[k]]_vars

\* A get returned undefined right after a clear of its key, an entry at
\* another key still there.
C14_Witness ==
    /\ prev.op = "clear" /\ prev.cacheKey = "a"
    /\ task[1].op = "get" /\ task[1].cacheKey = "a" /\ task[1].pc = "done"
    /\ task[1].nGet = 1 /\ ~task[1].getFault /\ task[1].result = Undefined
    /\ store["b"] = "10"

\* A step of the raw in frame t.
RawStep(t) ==
    /\ task[t].op = "raw" /\ task[t].pc = "rawFn"
    /\ task'[t] # task[t]

\* C15: raw applies fn exactly once to its arguments and gives fn's outcome,
\* whatever the store holds and however the instance is configured; it derives
\* no key, does not resolve the binding, calls neither getter nor setter and
\* issues no store get, put or delete; its step leaves the store and
\* runtimeCache as they were.
C15_RawOnlyCallsFn ==
    /\ [](\A t \in Tasks :
            LET tk == task[t] IN
            tk.op = "raw" =>
              /\ tk.pc \in {"rawFn", "done"}
              /\ tk.pc = "rawFn" => tk.nFn = 0
              /\ tk.pc = "done" => GaveFnOutcome(tk)
              /\ tk.nKey = 0 /\ tk.cacheKey = NoKey
              /\ tk.nImp = 0 /\ tk.nLook = 0
              /\ tk.nGetter = 0 /\ tk.nSetter = 0
              /\ tk.nGet = 0 /\ tk.nPut = 0 /\ tk.nDel = 0)
    /\ [][\A t \in Tasks :
            RawStep(t) =>
              /\ task'[t].pc = "done"
              /\ store' = store /\ runtimeCache' = runtimeCache
              /\ nImport' = nImport]_vars

\* raw returned fn's value for arguments the key function refuses, with no
\* binding in env and an entry in the store.
C15_Witness ==
    \E t \in Tasks :
      /\ task[t].op = "raw" /\ task[t].args = "x4" /\ task[t].pc = "done"
      /\ task[t].result = Num10
      /\ keyGenerator = KeyFunction /\ envKV = "absent" /\ runtimeCache = Null
      /\ \E k \in StoreKeys : store[k] # NoEntry

\* A wrapped call whose key is not the bypass and whose getter reported
\* undefined has returned.
MissReturned(tk) ==
    /\ tk.op = "call" /\ tk.cacheKey \notin {NoKey, False}
    /\ tk.pc = "done" /\ tk.status = "returned"
    /\ tk.nGetter = 1 /\ tk.got = Undefined

\* C16: a wrapped call that misses derives the key, reads through the getter
\* once, applies fn once to its arguments, hands the setter the same key and
\* fn's result once, and returns that result, each step only after the one
\* before it; no wrapped call reads, applies fn or writes more than once or
\* deletes, and fn is not applied (key not the bypass) unless the read reported
\* a miss.
C16_MissStepsInOrder ==
    \A t \in Tasks :
      LET tk == task[t] IN
      tk.op = "call" =>
        /\ tk.nKey <= 1 /\ tk.nGetter <= 1 /\ tk.nGet <= 1 /\ tk.nFn <= 1
        /\ tk.nSetter <= 1 /\ tk.nPut <= 1 /\ tk.nDel = 0
        /\ tk.nGetter = 1 => tk.nKey = 1 /\ tk.cacheKey \notin {NoKey, False}
        /\ (tk.nFn = 1 /\ tk.cacheKey # False) =>
             /\ tk.nGetter = 1 /\ tk.got = Undefined
             /\ tk.fnArgs = tk.args
        /\ tk.nSetter = 1 =>
             /\ tk.nFn = 1 /\ tk.fnOut # FnThrew
             /\ tk.setKey = tk.cacheKey /\ tk.setVal = tk.fnOut
        /\ tk.nPut = 1 => tk.nSetter = 1 /\ tk.putKey = tk.cacheKey
        /\ (tk.pc = "done" /\ tk.status = "returned" /\ tk.nFn = 1) =>
             tk.result = tk.fnOut
        /\ MissReturned(tk) => tk.nFn = 1 /\ tk.nSetter = 1
        /\ (tk.pc # "done" /\ tk.cacheKey \notin {NoKey, False}) =>
             \/ tk.nGetter = 0
             \/ tk.nGetter = 1 /\ tk.got = Undefined /\ tk.nSetter = 0

\* A wrapped call missed, applied fn, put its result and returned it.
C16_Witness ==
    \E t \in Tasks :
      /\ MissReturned(task[t]) /\ task[t].result = Num10
      /\ task[t].nFn = 1 /\ task[t].nSetter = 1 /\ task[t].nPut = 1
      /\ task[t].putOk /\ store[task[t].cacheKey] = "10"

\* C17: every KV.put of the default setter, from a missed call or from set, is
\* addressed to prefix + the key derived from the operation's arguments and
\* carries as expirationTtl the configured ttl truncated to whole seconds, an
\* integer of at least 60; with a static key the put goes to prefix + key
\* whatever the arguments are.
C17_PutKeyAndTtl ==
    \A t \in Tasks :
      LET tk == task[t] IN
      tk.nPut >= 1 =>
        /\ tk.op \in {"call", "set"}
        /\ tk.putKey = KeyOfArgs(tk.args)
        /\ keyGenerator # KeyFunction => tk.putKey = prefix \o keyGenerator
        /\ ttl = EffectiveTtl.tenths
        /\ tk.putTtl * 10 <= ttl /\ ttl < (tk.putTtl + 1) * 10
        /\ tk.putTtl >= 60

\* A set under the static key put at p:fixed with expirationTtl 61 for a ttl
\* of 61.8, its arguments ones the key function would map elsewhere.
C17_Witness ==
    \E t \in Tasks :
      /\ task[t].op = "set" /\ task[t].args = "x2" /\ task[t].nPut = 1
      /\ task[t].putKey = "p:fixed" /\ task[t].putTtl = 61 /\ ttl = 618
      /\ store["p:fixed"] = task[t].putText

\* C18: when first operations on the instance overlap, each may import the
\* runtime module and assign runtimeCache, and nothing goes wrong: every
\* resolveKV reads env of an assigned runtimeCache, never of null; with a valid
\* binding every one of them goes on with the handle; once a resolveKV has
\* returned runtimeCache is set, and an operation imports only if it found
\* runtimeCache unset, so later operations do not import again.
C18_ImportRaceHarmless ==
    \A t \in Tasks :
      LET tk == task[t] IN
      /\ tk.error # "TypeError:null"
      /\ tk.nLook >= 1 =>
           /\ tk.nLook = 1 /\ tk.usedRc = Module /\ runtimeCache = Module
           /\ envKV = "valid" => tk.error # "TypeError:binding"
           /\ envKV # "valid" => tk.error = "TypeError:binding"
      /\ tk.nImp >= 1 => tk.nImp = 1 /\ tk.sawRc = Null
      /\ (tk.nLook = 1 /\ tk.nImp = 0) => tk.sawRc = Module
      /\ nImport <= MaxTasks

\* Two overlapping operations each imported the module, and both returned.
C18_Witness ==
    /\ nImport = 2 /\ runtimeCache = Module /\ envKV = "valid"
    /\ \A t \in {1, 2} :
         /\ task[t].nImp = 1 /\ task[t].nLook = 1
         /\ task[t].pc = "done" /\ task[t].status = "returned"

\* The wrapped calls invoked so far whose key is not the bypass.
KeyedCalls == {t \in Tasks : task[t].op = "call" /\ task[t].cacheKey \notin {NoKey, False}}

\* C19: however overlapping wrapped calls on one key interleave, a call that
\* returned gives either the value its own getter read reported (and then it
\* did not apply fn) or the value its own application of fn returned, never
\* the result of another call; every call whose read reported undefined
\* applies fn itself (nothing is coalesced), and no call applies fn more than
\* once, so fn is applied at most as often as there are calls.
C19_OwnReadOrOwnResult ==
    \A t \in KeyedCalls :
      LET tk == task[t] IN
      /\ tk.nFn <= 1 /\ tk.nGetter <= 1
      /\ (tk.pc = "done" /\ tk.status = "returned") =>
           /\ tk.nGetter = 1
           /\ \/ tk.got # Undefined /\ tk.result = tk.got /\ tk.nFn = 0
              \/ tk.got = Undefined /\ tk.nFn = 1 /\ tk.fnArgs = tk.args
                   /\ tk.fnOut \notin {NotCalled, FnThrew}
                   /\ tk.result = tk.fnOut
      /\ (tk.nGetter = 1 /\ tk.got = Undefined /\ tk.pc \in {"setter", "done"}) =>
           tk.nFn = 1

\* Two calls on one key both read before either wrote, each applied fn, the
\* first returned null, the second 10; the store holds the first one's put,
\* made after the second one's.
C19_Witness ==
    /\ {1, 2} \subseteq KeyedCalls
    /\ task[1].cacheKey = task[2].cacheKey
    /\ \A t \in {1, 2} :
         /\ task[t].pc = "done" /\ task[t].text = NoEntry /\ ~task[t].getFault
         /\ task[t].nFn = 1 /\ task[t].putOk
    /\ task[1].result = Null /\ task[2].result = Num10
    /\ store[task[1].cacheKey] = "null"

\* The operation in frame t offered text for key k: a set whose arguments
\* derive k was given a value with that JSON text, or fn returned such a value
\* to a wrapped call whose arguments derive k.
Offered(t, k, text) ==
    LET tk == task[t] IN
    /\ text # NoText
    /\ tk.op \in {"call", "set"}
    /\ KeyFn(tk.args) \notin {False, NonString} /\ KeyOfArgs(tk.args) = k
    /\ \/ tk.op = "set" /\ text = JSONstringify(tk.value)
       \/ tk.op = "call" /\ tk.fnOut \notin {NotCalled, FnThrew}
            /\ text = JSONstringify(tk.fnOut)

\* An operation that is to leave the store alone: get, raw, a hit, or any
\* operation the key function bypasses.
LeavesStore(tk) ==
    \/ tk.op \in {"get", "raw"}
    \/ tk.cacheKey = False
    \/ tk.op = "call" /\ tk.nGetter = 1 /\ tk.got # Undefined

\* C20: starting from an empty store, under every interleaving of call, get,
\* set, clear and raw, the entry at a key prefix + k is the JSON text of a
\* value some set was given for arguments deriving k, or of a result fn
\* returned to a wrapped call with arguments deriving k; get, raw, hits and
\* bypassed operations issue no put and no delete; and an entry that was put
\* is gone only if a clear deleted it or it expired.
C20_EntriesHaveProvenance ==
    /\ \A k \in StoreKeys :
         store[k] # NoEntry => \E t \in Tasks : Offered(t, k, store[k])
    /\ \A t \in Tasks :
         LET tk == task[t] IN
         /\ LeavesStore(tk) => tk.nPut = 0 /\ tk.nDel = 0
         /\ (tk.putOk /\ store[tk.putKey] = NoEntry) =>
              \/ tk.expired
              \/ \E u \in Tasks :
                   /\ task[u].op = "clear" /\ task[u].delOk
                   /\ task[u].delKey = tk.putKey

\* A set of NaN left the text null, and a wrapped call that hit it returned
\* null and left the entry as it was.
C20_Witness ==
    /\ task[1].op = "set" /\ task[1].value = NaN /\ task[1].putOk
    /\ task[2].op = "call" /\ task[2].pc = "done" /\ task[2].got = Null
    /\ task[2].nPut = 0
    /\ store[task[1].putKey] = "null"
=============================================================================
